---- MODULE Spec2Model ----
(***************************************************************************)
(* Model of VideoRecorder (src/Video_Uploading.py): the capture loop       *)
(* record_continuous, and the background threads started by process_video  *)
(* (compress_video, then upload_video and its own upload thread); and of   *)
(* the one-shot conversion script src/Decompression.py.                    *)
(*                                                                         *)
(* Time is counted in integer ticks of a clock with tps ticks per second;  *)
(* a delay shorter than one tick counts as no delay.                       *)
(* The file system is the set of paths that exist.  A path is a record     *)
(* [ts, suffix, ext]: the wall-clock second of its time stamp, the tokens  *)
(* appended to the base name, and the extension.                           *)
(***************************************************************************)
EXTENDS Integers, Sequences, FiniteSets, TLC

\* ---- bounds of the model ------------------------------------------------
\* segments the capture loop opens before the model stops it
MaxSeg == 2

\* The configurations explored: segment_duration (seconds), fps, the
\* resolution of the clock (ticks per second), and the largest cost of
\* reading, writing and showing one frame (frame intervals)
Configs == {[segment_duration |-> 1, fps |-> 2, tps |-> 2, cost |-> 2]}

\* HTTP statuses the remote endpoint may answer with (requests.put).
Statuses == {200, 201, 500}

VARIABLES
    segment_duration,  \* self.segment_duration, seconds
    fps,               \* self.fps
    tps,               \* resolution of the clock: ticks per second
    cost_max,          \* largest cost, in ticks, of one frame in this run
    q_pressed,         \* 'q' was pressed and no waitKey has returned it yet
    q_segments,        \* segments opened since then (0 while q_pressed is FALSE)
    now,               \* time.monotonic(), ticks
    cam_open,          \* self.cap is opened (not yet released)
    cap_pc,            \* position of record_continuous
    ctl,               \* how the inner try block was left: normal / break / return
    segs,              \* the segments opened so far, in order
    out_open,          \* the current cv2.VideoWriter `out` is open
    frames,            \* frames written to `out` so far
    end_time,          \* end_time of the current segment
    files,             \* paths that exist in the output directory
    task,              \* background tasks, by segment number
    access,            \* log of file reads and deletions by tasks
    oneshot            \* the run of Decompression.py main, "off" in a recorder run

vars == <<segment_duration, fps, tps, cost_max, q_pressed, q_segments, now,
          cam_open, cap_pc, ctl, segs, out_open, frames, end_time, files,
          task, access, oneshot>>

capVars == <<segment_duration, fps, tps, cost_max, q_pressed, q_segments, now,
             cam_open, cap_pc, ctl, segs, out_open, frames, end_time>>

\* ---- pure helpers -------------------------------------------------------

\* ticks in one second
TicksPerSec == tps

\* frame_interval = 1 / self.fps, in ticks
frame_interval == TicksPerSec \div fps

\* cv2.waitKey(1): the milliseconds waitKey waits for a key
KeyWaitMs == 1

\* the ticks waitKey(1) takes when no key is pressed
KeyWait == (KeyWaitMs * TicksPerSec) \div 1000

\* time.strftime("%Y-%m-%d_%H-%M-%S"): the wall-clock second of instant t
strftime(t) == t \div TicksPerSec

\* generate_filename: video_<timestamp>.mp4 in the output directory
generate_filename(t) == [ts |-> strftime(t), suffix |-> <<>>, ext |-> ".mp4"]

\* os.path.splitext: <<base, ext>>
splitext(p) == <<[ts |-> p.ts, suffix |-> p.suffix], p.ext>>

\* compressed_file = f"{base_name}_compressed{ext}"
compressed_file(p) ==
    LET s == splitext(p)
    IN  [ts |-> s[1].ts, suffix |-> s[1].suffix \o <<"_compressed">>, ext |-> s[2]]

NoPath == [ts |-> -1, suffix |-> <<>>, ext |-> ""]

cur == Len(segs)

\* ---- initial state ------------------------------------------------------
\* The recorder as __init__ leaves it, in configuration c
InitRecorder(c) ==
    /\ segment_duration = c.segment_duration
    /\ fps = c.fps
    /\ tps = c.tps
    /\ cost_max = c.cost * (c.tps \div c.fps)
    /\ q_pressed = FALSE
    /\ q_segments = 0
    /\ now = 0
    /\ cam_open = TRUE
    /\ cap_pc = "gen"
    /\ ctl = "normal"
    /\ segs = <<>>
    /\ out_open = FALSE
    /\ frames = 0
    /\ end_time = 0
    /\ files = {}
    /\ task = <<>>
    /\ access = {}

\* No run of Decompression.py
OneShotOff == [pc |-> "off"]

Init == (\E c \in Configs : InitRecorder(c)) /\ oneshot = OneShotOff

\* ---- the capture loop: record_continuous --------------------------------

\* lines 187-193: new file name, new writer, start and end time
OpenSegment ==
    /\ cap_pc = "gen"
    /\ cur < MaxSeg
    /\ LET video_filename == generate_filename(now)
       IN  /\ segs' = Append(segs, [path |-> video_filename,
                                    releases |-> 0, closes |-> 0, exit |-> "none"])
           /\ files' = files \cup {video_filename}
    /\ out_open' = TRUE
    /\ frames' = 0
    /\ q_segments' = IF q_pressed THEN q_segments + 1 ELSE 0
    /\ end_time' = now + segment_duration * TicksPerSec
    /\ ctl' = "normal"
    /\ cap_pc' = "loop_test"
    /\ UNCHANGED <<segment_duration, fps, tps, cost_max, q_pressed, now,
                   cam_open, task, access, oneshot>>

\* Mutant of LoopElapsed: the segment is handed over without the finally
\* clause, its writer still open
LoopElapsed_NoFinally ==
    /\ cap_pc = "loop_test"
    /\ ~(now < end_time)
    /\ segs' = [segs EXCEPT ![cur].exit = "elapsed"]
    /\ ctl' = "normal"
    /\ cap_pc' = "submit"
    /\ UNCHANGED <<segment_duration, fps, tps, cost_max, q_pressed,
                   q_segments, now, cam_open, out_open, frames, end_time,
                   files, task, access, oneshot>>

\* line 196 false: the duration has elapsed, the try block ends normally
LoopElapsed ==
    /\ cap_pc = "loop_test"
    /\ ~(now < end_time)
    /\ segs' = [segs EXCEPT ![cur].exit = "elapsed"]
    /\ ctl' = "normal"
    /\ cap_pc' = "finally"
    /\ UNCHANGED <<segment_duration, fps, tps, cost_max, q_pressed,
                   q_segments, now, cam_open, out_open, frames, end_time,
                   files, task, access, oneshot>>

\* lines 207-210: the instant the pacing ends, for a frame that began at
\* fstart and was read, written and shown by instant t
Pace(fstart, t) ==
    LET elapsed == t - fstart
        remaining_time == frame_interval - elapsed
    IN  IF remaining_time > 0 THEN t + remaining_time ELSE t

\* lines 196-210 with ret true: a frame is read, written and shown, which
\* costs c ticks, and the loop sleeps the rest of the frame interval
FrameOk ==
    /\ cap_pc = "loop_test"
    /\ now < end_time
    /\ LET frame_start == now
       IN  \E c \in 0..cost_max :
             now' = Pace(frame_start, frame_start + c)
    /\ frames' = frames + 1
    /\ cap_pc' = "waitkey"
    /\ UNCHANGED <<segment_duration, fps, tps, cost_max, q_pressed,
                   q_segments, cam_open, ctl, segs, out_open, end_time,
                   files, task, access, oneshot>>

\* Control flow after a failed read (line 202): break
ReadFailCtl == "break"

\* lines 196-202 with ret false: the frame source reports not-ok
FrameFail ==
    /\ cap_pc = "loop_test"
    /\ now < end_time
    /\ segs' = [segs EXCEPT ![cur].exit = "readfail"]
    /\ ctl' = ReadFailCtl
    /\ cap_pc' = "finally"
    /\ UNCHANGED <<segment_duration, fps, tps, cost_max, q_pressed,
                   q_segments, now, cam_open, out_open, frames, end_time,
                   files, task, access, oneshot>>

\* The user presses 'q' while the recorder runs
PressQ ==
    /\ ~q_pressed
    /\ cap_pc # "terminated"
    /\ ~(cap_pc = "gen" /\ cur >= MaxSeg)
    /\ q_pressed' = TRUE
    /\ UNCHANGED <<segment_duration, fps, tps, cost_max, q_segments, now,
                   cam_open, cap_pc, ctl, segs, out_open, frames, end_time,
                   files, task, access, oneshot>>

\* line 212 false: waitKey(1) times out, no stop request
KeyNone ==
    /\ cap_pc = "waitkey"
    /\ ~q_pressed
    /\ now' = now + KeyWait
    /\ cap_pc' = "loop_test"
    /\ UNCHANGED <<segment_duration, fps, tps, cost_max, q_pressed,
                   q_segments, cam_open, ctl, segs, out_open, frames,
                   end_time, files, task, access, oneshot>>

\* out.release() on segment s
release(s, open) ==
    [s EXCEPT !.releases = @ + 1, !.closes = IF open THEN @ + 1 ELSE @]

\* Mutant of StopCtl: the stop request leaves the loop with break
StopCtl_Break == "break"

\* Control flow after a stop request (line 216): return
StopCtl == "return"

\* lines 212-216: waitKey returns 'q': out.release(), close_camera(), return
KeyStop ==
    /\ cap_pc = "waitkey"
    /\ q_pressed
    /\ q_pressed' = FALSE
    /\ q_segments' = 0
    /\ segs' = [segs EXCEPT ![cur] = [release(@, out_open) EXCEPT !.exit = "stop"]]
    /\ out_open' = FALSE
    /\ cam_open' = FALSE
    /\ ctl' = StopCtl
    /\ cap_pc' = "finally"
    /\ UNCHANGED <<segment_duration, fps, tps, cost_max, now, frames,
                   end_time, files, task, access, oneshot>>

\* Mutant of FinallyRelease: the finally clause does not release the writer
FinallyRelease_Skip(s, open) == s

\* The segment as the finally clause leaves it (line 218)
FinallyRelease(s, open) == release(s, open)

\* lines 217-219: finally: out.release(); then the pending return, or go on
Finally ==
    /\ cap_pc = "finally"
    /\ segs' = [segs EXCEPT ![cur] = FinallyRelease(@, out_open)]
    /\ out_open' = FALSE
    /\ cap_pc' = IF ctl = "return" THEN "terminated" ELSE "submit"
    /\ UNCHANGED <<segment_duration, fps, tps, cost_max, q_pressed,
                   q_segments, now, cam_open, ctl, frames, end_time, files,
                   task, access, oneshot>>

\* A task as process_video creates it: a thread that has not run yet
NewTask(p) ==
    [state |-> "pending", alive |-> TRUE, input |-> p, ff |-> "none",
     removed |-> FALSE, result |-> NoPath, uploadArg |-> NoPath, status |-> 0,
     ncompress |-> 0, nupload |-> 0]

\* The task of segment i has ended: its thread died or the upload is over
Finished(i) ==
    /\ i \in DOMAIN task
    /\ (~task[i].alive \/ task[i].state \in {"done", "upload_failed"})

\* Mutant of Submit: process_video joins the thread it started
Submit_Join ==
    /\ cap_pc = "submit"
    /\ IF cur \notin DOMAIN task
       THEN /\ task' = [i \in (DOMAIN task) \cup {cur} |->
                           IF i = cur THEN NewTask(segs[cur].path) ELSE task[i]]
            /\ cap_pc' = "submit"
       ELSE /\ Finished(cur)
            /\ task' = task
            /\ cap_pc' = "gen"
    /\ UNCHANGED <<segment_duration, fps, tps, cost_max, q_pressed,
                   q_segments, now, cam_open, ctl, segs, out_open, frames,
                   end_time, files, access, oneshot>>

\* lines 221-222, 166-177: process_video starts the thread and returns
Submit ==
    /\ cap_pc = "submit"
    /\ task' = [i \in (DOMAIN task) \cup {cur} |->
                   IF i = cur THEN NewTask(segs[cur].path) ELSE task[i]]
    /\ cap_pc' = "gen"
    /\ UNCHANGED <<segment_duration, fps, tps, cost_max, q_pressed,
                   q_segments, now, cam_open, ctl, segs, out_open, frames,
                   end_time, files, access, oneshot>>

CaptureNext ==
    \/ OpenSegment
    \/ LoopElapsed
    \/ FrameOk
    \/ FrameFail
    \/ KeyNone
    \/ KeyStop
    \/ Finally
    \/ Submit

\* ---- the background task: process, compress_video, upload ---------------

Running(i) == i \in DOMAIN task /\ task[i].alive

\* The thread of process() dies with an uncaught exception
Die(t, why) == [t EXCEPT !.alive = FALSE, !.ff = IF @ = "none" THEN why ELSE @]

\* lines 174, 103-113: process() runs, compress_video starts ffmpeg.
\* subprocess.run raises OSError when the program cannot be started; only
\* CalledProcessError is caught (line 117), so the thread ends there.
StartCompress(i) ==
    /\ Running(i)
    /\ task[i].state = "pending"
    /\ \E started \in BOOLEAN :
          task' = [task EXCEPT ![i] =
                      LET called == [@ EXCEPT !.state = "compressing",
                                              !.ncompress = @ + 1]
                      IN  IF started THEN called ELSE Die(called, "nostart")]
    /\ UNCHANGED <<capVars, oneshot, files, access>>

\* What compress_video returns from its except clause (line 119)
FallbackPath(input) == input

\* line 113 returns: ffmpeg has read the input and exits with status 0
\* (the compressed file exists) or with an error status (lines 117-119).
\* Without its input file ffmpeg can only fail.
FfmpegExit(i) ==
    /\ Running(i)
    /\ task[i].state = "compressing"
    /\ task[i].ff = "none"
    /\ LET input == task[i].input
       IN  \E ok \in BOOLEAN :
             /\ ok => input \in files
             /\ access' = IF input \in files
                          THEN access \cup {[task |-> i, path |-> input, op |-> "read"]}
                          ELSE access
             /\ IF ok
                THEN /\ files' = files \cup {compressed_file(input)}
                     /\ task' = [task EXCEPT ![i].ff = "ok"]
                ELSE /\ files' = files
                     /\ task' = [task EXCEPT ![i] =
                                    [@ EXCEPT !.ff = "error",
                                              !.state = "compress_failed",
                                              !.result = FallbackPath(input)]]
    /\ UNCHANGED <<capVars, oneshot, oneshot>>

\* Mutant of RemoveOriginal: the OSError of os.remove ends the whole
\* program, the capture loop included
RemoveOriginal_Propagate(i) ==
    /\ Running(i)
    /\ task[i].state = "compressing"
    /\ task[i].ff = "ok"
    /\ task' = [task EXCEPT ![i] = Die(@, "ok")]
    /\ cap_pc' = "terminated"
    /\ UNCHANGED <<segment_duration, fps, tps, cost_max, q_pressed,
                   q_segments, now, cam_open, ctl, segs, out_open, frames,
                   end_time, files, access, oneshot>>

\* lines 114-116: os.remove(input_file), then return compressed_file.
\* os.remove raises OSError when the file is missing or cannot be deleted;
\* it is not caught, so the thread ends without returning.
RemoveOriginal(i) ==
    /\ Running(i)
    /\ task[i].state = "compressing"
    /\ task[i].ff = "ok"
    /\ LET input == task[i].input
       IN  \E ok \in BOOLEAN :
             /\ ok => input \in files
             /\ IF ok
                THEN /\ files' = files \ {input}
                     /\ access' = access \cup
                                     {[task |-> i, path |-> input, op |-> "delete"]}
                     /\ task' = [task EXCEPT ![i] =
                                    [@ EXCEPT !.removed = TRUE,
                                              !.state = "compressed",
                                              !.result = compressed_file(input)]]
                ELSE /\ files' = files
                     /\ access' = access
                     /\ task' = [task EXCEPT ![i] = Die(@, "ok")]
    /\ UNCHANGED <<capVars, oneshot, oneshot>>

\* Mutant of StartUpload: the upload is started without waiting for
\* compress_video, with the recorded file
StartUpload_Early(i) ==
    /\ Running(i)
    /\ task[i].state \in {"pending", "compressed", "compress_failed"}
    /\ task' = [task EXCEPT ![i] =
                   [@ EXCEPT !.state = "uploading", !.nupload = @ + 1,
                             !.uploadArg = IF task[i].result = NoPath
                                           THEN task[i].input ELSE task[i].result]]
    /\ UNCHANGED <<capVars, oneshot, files, access>>

\* line 175, lines 141-164: upload_video(compressed_filename) starts the
\* upload thread; process() ends.
StartUpload(i) ==
    /\ Running(i)
    /\ task[i].state \in {"compressed", "compress_failed"}
    /\ task' = [task EXCEPT ![i] =
                   [@ EXCEPT !.state = "uploading", !.nupload = @ + 1,
                             !.uploadArg = task[i].result]]
    /\ UNCHANGED <<capVars, oneshot, files, access>>

\* Mutant of UploadOk: 200 counts as success too, as in the one-shot script
UploadOk_200(status) == status \in {200, 201}

\* line 156: the status that counts as success
UploadOk(status) == status = 201

\* lines 149-162: upload(): open the file, PUT it, look at the status.
\* status 0 stands for an exception (open, transport, json), caught at 161.
UploadFinish(i) ==
    /\ Running(i)
    /\ task[i].state = "uploading"
    /\ LET f == task[i].uploadArg
       IN  \E status \in Statuses \cup {0} :
             /\ f \notin files => status = 0
             /\ access' = IF f \in files
                          THEN access \cup {[task |-> i, path |-> f, op |-> "read"]}
                          ELSE access
             /\ task' = [task EXCEPT ![i] =
                            [@ EXCEPT !.status = status,
                                      !.state = IF UploadOk(status) THEN "done"
                                                ELSE "upload_failed"]]
    /\ UNCHANGED <<capVars, oneshot, files>>

TaskNext ==
    \E i \in 1..MaxSeg :
        \/ StartCompress(i)
        \/ FfmpegExit(i)
        \/ RemoveOriginal(i)
        \/ StartUpload(i)
        \/ UploadFinish(i)

Next == CaptureNext \/ PressQ \/ TaskNext

Spec == Init /\ [][Next]_vars

\* ---- the capture loop alone, on a millisecond clock ----------------------

\* Configurations in which one frame never costs more than one frame
\* interval: 1 s and 6 s segments at 20 fps, time in milliseconds
PacingConfigs ==
    {[segment_duration |-> 1, fps |-> 20, tps |-> 1000, cost |-> 1],
     [segment_duration |-> 6, fps |-> 20, tps |-> 1000, cost |-> 1]}

InitPacing == (\E c \in PacingConfigs : InitRecorder(c)) /\ oneshot = OneShotOff

\* record_continuous and the keyboard; the tasks it starts never run
NextPacing == CaptureNext \/ PressQ

SpecPacing == InitPacing /\ [][NextPacing]_vars

\* ---- the one-shot conversion script: Decompression.py --------------------

\* main's input_video and decompressed_video
input_video == "input_video"
decompressed_video == "decompressed_video"

\* The values os.path.dirname(decompressed_file) may have: empty for a bare
\* file name, a folder otherwise
OutputFolders == {"", "folder"}

\* main's access_token and folder_id, as the remote endpoint sees them
AccessTokens == {"valid", "expired"}
FolderIds == {"known", "unknown"}

\* A run of main about to call decompress_video: fs is the set of paths
\* that exist, folder is os.path.dirname(decompressed_video)
OneShotStart(fs, folder, token, fid) ==
    [pc |-> "check", fs |-> fs, output_folder |-> folder,
     access_token |-> token, folder_id |-> fid,
     made |-> FALSE,        \* os.makedirs was called
     ran |-> FALSE,         \* the ffmpeg command was run
     success |-> "none",    \* what decompress_video returned
     file_path |-> "",      \* the argument of upload_to_onedrive, if called
     status_code |-> 0,     \* response.status_code, 0 without a response
     printed |-> "none",    \* what upload_to_onedrive printed last
     raised |-> "none"]     \* the exception that left main

\* The file systems a run may start in: the output file only exists inside
\* its folder, and the empty dirname is no folder of its own
OneShotInputs ==
    {OneShotStart(fs, folder, token, fid) :
        fs \in SUBSET {input_video, decompressed_video, "folder"},
        folder \in OutputFolders, token \in AccessTokens, fid \in FolderIds}

InitOneShot ==
    /\ \E c \in Configs : InitRecorder(c)
    /\ oneshot \in {o \in OneShotInputs :
                       /\ o.output_folder = "" => "folder" \notin o.fs
                       /\ (o.output_folder # "" /\ decompressed_video \in o.fs)
                             => "folder" \in o.fs}

recVars == <<capVars, files, task, access>>

\* lines 16, 6-11: check_file_exists raises FileNotFoundError, which neither
\* decompress_video nor main catches
CheckFileExists ==
    /\ oneshot.pc = "check"
    /\ oneshot' = IF input_video \in oneshot.fs
                     THEN [oneshot EXCEPT !.pc = "makedirs"]
                     ELSE [oneshot EXCEPT !.pc = "raised",
                                          !.raised = "FileNotFoundError"]
    /\ UNCHANGED recVars

\* lines 19-20: os.makedirs(output_folder, exist_ok=True), outside the try:
\* it raises for the empty dirname, and may fail to create a missing folder
MakeDirs ==
    /\ oneshot.pc = "makedirs"
    /\ \/ /\ oneshot.output_folder # ""
          /\ oneshot' = [oneshot EXCEPT !.pc = "ffmpeg", !.made = TRUE,
                                        !.fs = @ \cup {oneshot.output_folder}]
       \/ /\ oneshot.output_folder = ""
          /\ oneshot' = [oneshot EXCEPT !.pc = "raised", !.made = TRUE,
                                        !.raised = "FileNotFoundError"]
       \/ /\ oneshot.output_folder # ""
          /\ oneshot.output_folder \notin oneshot.fs
          /\ oneshot' = [oneshot EXCEPT !.pc = "raised", !.made = TRUE,
                                        !.raised = "OSError"]
    /\ UNCHANGED recVars

\* Outcomes of ffmpeg...run(overwrite_output=True): exit status 0, a
\* non-zero exit status (ffmpeg.Error) with or without a partial output, or
\* the ffmpeg executable cannot be started
FfmpegOutcomes == {"ok", "error", "error_partial", "nostart"}

\* lines 24-39: only ffmpeg.Error is caught
RunFfmpeg ==
    /\ oneshot.pc = "ffmpeg"
    /\ \E r \in FfmpegOutcomes :
          oneshot' =
            CASE r = "ok" ->
                   [oneshot EXCEPT !.pc = "returned", !.ran = TRUE,
                                   !.success = "True",
                                   !.fs = @ \cup {decompressed_video}]
              [] r = "error" ->
                   [oneshot EXCEPT !.pc = "returned", !.ran = TRUE,
                                   !.success = "False"]
              [] r = "error_partial" ->
                   [oneshot EXCEPT !.pc = "returned", !.ran = TRUE,
                                   !.success = "False",
                                   !.fs = @ \cup {decompressed_video}]
              [] r = "nostart" ->
                   [oneshot EXCEPT !.pc = "raised", !.ran = TRUE,
                                   !.raised = "FileNotFoundError"]
    /\ UNCHANGED recVars

\* Mutant of MainUploads: main uploads whatever decompress_video returned
MainUploads_Always(success) == success \in {"True", "False"}

\* line 81: if success
MainUploads(success) == success = "True"

\* lines 79-83: main calls upload_to_onedrive(decompressed_video, ...) or ends
MainBranch ==
    /\ oneshot.pc = "returned"
    /\ oneshot' = IF MainUploads(oneshot.success)
                     THEN [oneshot EXCEPT !.pc = "open",
                                          !.file_path = decompressed_video]
                     ELSE [oneshot EXCEPT !.pc = "end"]
    /\ UNCHANGED recVars

\* line 55: open(file_path, "rb") inside the try; it raises when the file
\* is missing and may raise although it exists (no permission)
OpenFile ==
    /\ oneshot.pc = "open"
    /\ \/ /\ oneshot.file_path \in oneshot.fs
          /\ oneshot' = [oneshot EXCEPT !.pc = "put"]
       \/ oneshot' = [oneshot EXCEPT !.pc = "end", !.printed = "Upload Error"]
    /\ UNCHANGED recVars

\* The statuses the endpoint may answer a PUT with: 401 for a token it does
\* not accept, 404 for a folder it does not know, else those of Statuses
PutAnswers(token, fid) ==
    IF token # "valid" THEN {401}
    ELSE IF fid # "known" THEN {404}
    ELSE Statuses

\* line 56: requests.put answers with a status, or raises (status 0)
Put ==
    /\ oneshot.pc = "put"
    /\ \E status \in PutAnswers(oneshot.access_token, oneshot.folder_id) \cup {0} :
          oneshot' = IF status = 0
                       THEN [oneshot EXCEPT !.pc = "end",
                                            !.printed = "Upload Error"]
                       ELSE [oneshot EXCEPT !.pc = "status",
                                            !.status_code = status]
    /\ UNCHANGED recVars

\* line 58: response.status_code in [200, 201]
OneShotUploadOk(status) == status \in {200, 201}

\* lines 58-64: the report; response.json() may raise on a body that is not
\* JSON, which the except clause catches
Report ==
    /\ oneshot.pc = "status"
    /\ \/ /\ OneShotUploadOk(oneshot.status_code)
          /\ oneshot' = [oneshot EXCEPT !.pc = "end",
                                        !.printed = "Upload successful!"]
       \/ /\ ~OneShotUploadOk(oneshot.status_code)
          /\ \E json_ok \in BOOLEAN :
                oneshot' = [oneshot EXCEPT
                              !.pc = "end",
                              !.printed = IF json_ok THEN "Upload failed"
                                                     ELSE "Upload Error"]
    /\ UNCHANGED recVars

NextOneShot ==
    \/ CheckFileExists
    \/ MakeDirs
    \/ RunFfmpeg
    \/ MainBranch
    \/ OpenFile
    \/ Put
    \/ Report

SpecOneShot == InitOneShot /\ [][NextOneShot]_vars

\* ---- properties ---------------------------------------------------------

\* segment k has been left by the capture loop (its finally clause has run)
Left(k) == k < cur \/ cap_pc \in {"submit", "gen", "terminated"}

\* C1: whenever the transcoder call of a task has failed and the task has
\* ended, the uploader was invoked with the original path of the segment
\* and the task has not deleted the original file.
C1_FailedCompressUploadsOriginal ==
    \A i \in DOMAIN task :
        (task[i].ff \in {"error", "nostart"} /\ Finished(i))
            => (task[i].uploadArg = task[i].input /\ ~task[i].removed)

\* C2: whenever the transcoder of a task has succeeded and the task has
\* ended, the original file does not exist and the uploader was invoked
\* with the path '<base>_compressed<ext>'.
C2_SuccessDeletesOriginal ==
    \A i \in DOMAIN task :
        (task[i].ff = "ok" /\ Finished(i))
            => (task[i].input \notin files
                /\ task[i].uploadArg = compressed_file(task[i].input))

\* the order of the states of one task
TaskOrder ==
    {<<"pending", "compressing">>,
     <<"compressing", "compressed">>, <<"compressing", "compress_failed">>,
     <<"compressed", "uploading">>, <<"compress_failed", "uploading">>,
     <<"uploading", "done">>, <<"uploading", "upload_failed">>}

\* C3: every step keeps each task on the path pending -> compressing ->
\* (compressed | compress_failed) -> uploading -> (done | upload_failed),
\* a new task starts pending, and a task starts uploading only when
\* compress_video has returned a path, which is the path uploaded.
C3_CompressBeforeUpload ==
    [][\A i \in DOMAIN task' :
          /\ i \notin DOMAIN task => task'[i].state = "pending"
          /\ i \in DOMAIN task =>
                /\ task'[i].state # task[i].state
                      => <<task[i].state, task'[i].state>> \in TaskOrder
                /\ (task'[i].state = "uploading" /\ task[i].state # "uploading")
                      => /\ task[i].ff \in {"ok", "error"}
                         /\ task[i].result # NoPath
                         /\ task'[i].uploadArg = task[i].result]_vars

\* C3 witness: the task of segment 2 is over while the task of segment 1,
\* submitted earlier, is still compressing.
C3_Witness ==
    /\ 2 \in DOMAIN task
    /\ task[2].state = "done"
    /\ task[1].state = "compressing" /\ task[1].alive

\* the capture loop has not returned and is not held by the model's bound
CaptureCanRun ==
    /\ cap_pc # "terminated"
    /\ ~(cap_pc = "gen" /\ cur >= MaxSeg)

\* C4: in every state in which some task is pending, compressing or
\* uploading, the capture loop has a step to take: no step of the capture
\* loop waits for a task.
C4_CaptureNeverWaits ==
    \A i \in DOMAIN task :
        (task[i].alive /\ task[i].state \in {"pending", "compressing", "uploading"})
            => (CaptureCanRun => ENABLED CaptureNext)

\* C4 witness: segment N+1 is open and has frames while the task of
\* segment N is still compressing.
C4_Witness ==
    \E i \in DOMAIN task :
        /\ task[i].alive /\ task[i].state = "compressing"
        /\ cur = i + 1 /\ out_open /\ frames >= 1

\* C5: no file is read or deleted by more than one task.
C5_NoSharedFile ==
    \A a \in access : \A b \in access : a.path = b.path => a.task = b.task

\* C6: no writer is open on the file of a segment that has been handed to
\* process_video.
C6_NoWriterOnHandedOffFile ==
    out_open => \A i \in DOMAIN task : task[i].input # segs[cur].path

\* C7: a failed frame read ends the capture loop: no segment is opened
\* after the segment whose read failed.
C7_ReadFailureIsFatal ==
    \A k \in 1..cur : segs[k].exit = "readfail" => k = cur

\* C8: only segments whose duration elapsed are handed to process_video.
C8_OnlyElapsedSubmitted ==
    \A i \in DOMAIN task : segs[i].exit = "elapsed"

\* C9: a segment that was being recorded when the stop request was seen is
\* the last one, has no task, and once the loop has returned the writer is
\* closed and the frame source released.
C9_StopDiscardsSegment ==
    \A k \in 1..cur :
        segs[k].exit = "stop"
            => /\ k = cur
               /\ k \notin DOMAIN task
               /\ ~out_open /\ ~cam_open
               /\ cap_pc \in {"finally", "terminated"}
               /\ segs[k].closes >= 1

\* C9 witness: the loop has returned after a stop request while an earlier
\* segment's task exists.
C9_Witness ==
    /\ cap_pc = "terminated"
    /\ cur = 2 /\ segs[cur].exit = "stop"
    /\ DOMAIN task = {1}

\* C10 as claimed: the writer of every segment the loop has left was
\* released exactly one time.
C10_ReleasedExactlyOnce ==
    \A k \in 1..cur : Left(k) => segs[k].releases = 1

\* C10 amended: the writer of every segment goes from open to closed
\* exactly once; release is called once when the duration elapsed or a read
\* failed, and twice after a stop request, the second time on a closed
\* writer.
C10_ClosedExactlyOnce ==
    \A k \in 1..cur :
        /\ segs[k].closes <= 1
        /\ Left(k) =>
              /\ segs[k].closes = 1
              /\ segs[k].releases = IF segs[k].exit = "stop" THEN 2 ELSE 1

\* C10 witness: a stopped segment, released twice and closed once.
C10_Witness ==
    /\ cap_pc = "terminated"
    /\ segs[cur].exit = "stop"
    /\ segs[cur].releases = 2 /\ segs[cur].closes = 1

\* C11: every segment that has a task had its writer closed before, and
\* is not the segment of an open writer; right after the handoff the loop
\* is free to open the next segment.
C11_HandoffAfterClose ==
    /\ \A i \in DOMAIN task :
          /\ segs[i].closes >= 1
          /\ segs[i].releases >= 1
          /\ ~(i = cur /\ out_open)
    /\ (cap_pc = "gen" /\ cur < MaxSeg) => ENABLED OpenSegment

\* C11 witness: the task of the segment just handed over has not run yet
\* and the loop is about to open the next segment.
C11_Witness ==
    /\ cap_pc = "gen" /\ cur \in DOMAIN task /\ cur < MaxSeg
    /\ task[cur].state = "pending"
    /\ segs[cur].exit = "elapsed"

\* C12: an upload that is over counts as successful exactly when the
\* status was 201; with any other status or an exception (status 0) it
\* has failed, and the upload thread has not died of an exception.
C12_SuccessIff201 ==
    \A i \in DOMAIN task :
        /\ task[i].state = "done" => (task[i].status = 201 /\ task[i].alive)
        /\ task[i].state = "upload_failed"
              => (task[i].status \in (Statuses \cup {0}) \ {201} /\ task[i].alive)
        /\ task[i].state \notin {"done", "upload_failed"} => task[i].status = 0

\* C12 witness: an upload answered with 200 has failed.
C12_Witness ==
    \E i \in DOMAIN task :
        task[i].state = "upload_failed" /\ task[i].status = 200

\* C13: every segment whose duration elapsed has one task once the loop
\* went on; no task calls compress_video or upload_video more than once,
\* the uploader is called after the transcoder, and a task that has ended
\* has called each exactly once.
C13_OneCompressOneUpload ==
    /\ \A k \in 1..cur :
          (segs[k].exit = "elapsed" /\ (k < cur \/ cap_pc = "gen"))
              => k \in DOMAIN task
    /\ \A i \in DOMAIN task :
          /\ task[i].ncompress <= 1 /\ task[i].nupload <= task[i].ncompress
          /\ Finished(i) => (task[i].ncompress = 1 /\ task[i].nupload = 1)

\* a step of a background task: an existing task changes
TaskStep == DOMAIN task' = DOMAIN task /\ task' # task

\* C14: no step of a background task changes the state of the capture
\* path.
C14_TasksLeaveCaptureAlone ==
    [][TaskStep => UNCHANGED capVars]_vars

\* C14 witness: the task of segment N has failed (thread dead, or upload
\* failed after a failed compression) while segment N+1 is being recorded.
C14_Witness ==
    \E i \in DOMAIN task :
        /\ cur = i + 1 /\ out_open /\ frames >= 1 /\ cap_pc = "loop_test"
        /\ (~task[i].alive \/ (task[i].state = "upload_failed" /\ task[i].ff = "error"))

\* C15: every task is still running or has reached done or upload_failed:
\* no task ends before its upload.
C15_EveryTaskReachesUpload ==
    \A i \in DOMAIN task :
        task[i].alive \/ task[i].state \in {"done", "upload_failed"}

\* C16 (finite-run form): once 'q' is pressed the loop observes it at its
\* next poll, so a segment that was opened while the request was pending is
\* not left before the request has been observed (and the loop stopped).
C16_StopObservedWithinSegment ==
    (q_pressed /\ q_segments >= 1) => cap_pc \in {"loop_test", "waitkey"}

\* C17: at most one segment has a writer that was opened and not closed,
\* and it is the current one.
C17_OneOpenWriter ==
    /\ Cardinality({k \in 1..cur : segs[k].closes = 0}) <= 1
    /\ \A k \in 1..cur : segs[k].closes = 0 <=> (k = cur /\ out_open)

\* C17 witness: the second segment's writer is open, the first one's closed.
C17_Witness ==
    cur = 2 /\ out_open /\ segs[1].closes = 1 /\ frames >= 1

\* C18: the segments opened in one run have pairwise distinct file names.
C18_DistinctNames ==
    \A j \in 1..cur : \A k \in 1..cur : j # k => segs[j].path # segs[k].path

\* C19: provided one frame never costs more than one frame interval, a
\* segment that ends because its time is up holds segment_duration * fps
\* frames, give or take one.
C19_FrameCount ==
    (/\ cost_max <= frame_interval
     /\ cap_pc = "finally"
     /\ segs[cur].exit = "elapsed")
        => frames - segment_duration * fps \in -1..1

\* The second half of C19: a frame that costs c ticks is followed by a sleep
\* of the remainder of the frame interval, and of nothing when c is larger.
C19_SleepsRemainder ==
    \A c \in 0..cost_max :
        Pace(now, now + c) = (IF c < frame_interval THEN now + frame_interval
                                                    ELSE now + c)

\* upload_to_onedrive was called in this run of main
UploaderInvoked == oneshot.file_path # ""

\* C20: in a run of Decompression.py main, the uploader is invoked if and
\* only if decompress_video returned True, and then with decompressed_video;
\* with the input file missing FileNotFoundError is raised before
\* os.makedirs and ffmpeg are reached and nothing is uploaded; the upload
\* reports success exactly for status 200 or 201, and no exception leaves
\* main once the uploader has been called.
C20_OneShotUpload ==
    oneshot.pc # "off" =>
        /\ UploaderInvoked =>
              (oneshot.success = "True" /\ oneshot.file_path = decompressed_video)
        /\ (oneshot.success = "True" /\ oneshot.pc # "returned") => UploaderInvoked
        /\ input_video \notin oneshot.fs =>
              /\ oneshot.pc \in {"check", "raised"}
              /\ ~oneshot.made /\ ~oneshot.ran /\ ~UploaderInvoked
              /\ oneshot.pc = "raised" => oneshot.raised = "FileNotFoundError"
        /\ oneshot.printed = "Upload successful!" <=>
              (oneshot.pc = "end" /\ oneshot.status_code \in {200, 201})
        /\ (oneshot.pc = "end" /\ UploaderInvoked) => oneshot.printed # "none"
        /\ oneshot.pc = "raised" <=> oneshot.raised # "none"
        /\ oneshot.raised # "none" => ~UploaderInvoked

\* C20 witness: the uploader was called after a successful conversion and
\* reported success for status 200.
C20_Witness ==
    /\ oneshot.pc = "end"
    /\ oneshot.success = "True"
    /\ oneshot.file_path = decompressed_video
    /\ oneshot.status_code = 200
    /\ oneshot.printed = "Upload successful!"

\* A run with the input file missing has ended
C20_MissingInputRaised ==
    oneshot.pc = "raised" /\ input_video \notin oneshot.fs

====
